---- MODULE Spec2Model ----
(***************************************************************************)
(* Simulation engine of gh-space-shooter: the GameState (ship, enemies,    *)
(* bullets), its per-frame update, the RandomStrategy action generator and *)
(* the Animator's drive loop.                                              *)
(*                                                                         *)
(* Units.  Ship.x is a float that only ever takes multiples of SHIP_SPEED  *)
(* = 0.25, so it is held in quarter cells.  Bullet.y is a float obtained   *)
(* from 9 by repeated subtraction of BULLET_SPEED = 0.15; it is held in    *)
(* twentieths of a cell.  The accumulated rounding error of the repeated   *)
(* subtraction is negative and far smaller than 0.05, so the comparison    *)
(* enemy.y >= bullet.y has the same outcome on the floats and on the       *)
(* twentieths (compared for every row 0..6 over 400 steps).                *)
(***************************************************************************)
EXTENDS Integers, Sequences, FiniteSets

\* ---- program constants (constants.py) ----
NUM_WEEKS == 52
NUM_DAYS == 7
SHIP_POSITION_Y == NUM_DAYS + 3
\* SHIP_SPEED = 0.25 cell, in quarter cells
SHIP_SPEED == 1
\* BULLET_SPEED = 0.15 cell, in twentieths of a cell
BULLET_SPEED == 3
SHIP_SHOOT_COOLDOWN_FRAMES == 8
\* Ship.__init__: self.x = 25
SHIP_START_X == 25
\* Enemy health is documented as 1-4 (the contribution levels)
MAX_HEALTH == 4

Quarters(c) == 4 * c
Twentieths(r) == 20 * r

\* ---- bounds of the model ----
\* largest contribution level drawn for a cell
MaxLevel == 2
\* largest sum of the levels of an input grid
MaxTotalHealth == 2
\* free-operation specification: calls of shoot, and animate calls any one
\* bullet lives through
MaxShots == 1
MaxBulletSteps == 22
\* drive-loop specifications: animate calls of one run
MaxDriveTicks == 80
\* largest sum of the levels of an input grid with one row of targets
MaxRowHealth == 3

\* the input grids are zero outside this window: the start column of the ship
\* and its right neighbour, the two rows nearest to the ship
ActiveWeeks == {SHIP_START_X, SHIP_START_X + 1}
ActiveDays == {NUM_DAYS - 2, NUM_DAYS - 1}
Weeks == 0 .. (NUM_WEEKS - 1)
Days == 0 .. (NUM_DAYS - 1)

RECURSIVE SumOf(_, _)
SumOf(f, S) ==
    IF S = {} THEN 0
    ELSE LET c == CHOOSE c \in S : TRUE IN f[c] + SumOf(f, S \ {c})

\* every contribution grid of the bounded input space
Grids ==
    { [w \in Weeks |-> [d \in Days |->
          IF w \in ActiveWeeks /\ d \in ActiveDays THEN f[<<w, d>>] ELSE 0]] :
      f \in { h \in [ActiveWeeks \X ActiveDays -> 0 .. MaxLevel] :
                  SumOf(h, ActiveWeeks \X ActiveDays) <= MaxTotalHealth } }

\* the bounded input grids that have all their targets in the row nearest to
\* the ship
RowGrids ==
    { [w \in Weeks |-> [d \in Days |->
          IF w \in ActiveWeeks /\ d = NUM_DAYS - 1 THEN f[w] ELSE 0]] :
      f \in { h \in [ActiveWeeks -> 0 .. MaxLevel] :
                  SumOf(h, ActiveWeeks) <= MaxRowHealth } }

VARIABLES
    contribution_data,  \* the input grid: week -> day -> level
    ship,               \* [x, target_x, shoot_cooldown]
    enemies,            \* GameState.enemies, a list of [x, y, health]
    bullets,            \* GameState.bullets, a list of [id, x, y]
    pc,                 \* position of Animator._generate_frames
    gen,                \* position of the RandomStrategy generator
    frames,             \* len(frames) of Animator._generate_frames
    ticks,              \* history: animate calls made by _generate_frames
    hist,               \* history: call counters and the last call's effects
    twin                \* a second drive-loop run on the same grid

vars == <<contribution_data, ship, enemies, bullets, pc, gen, frames, ticks, hist, twin>>

Min(S) == CHOOSE m \in S : \A n \in S : m <= n
Max(S) == CHOOSE m \in S : \A n \in S : m >= n

RemoveAt(s, i) == SubSeq(s, 1, i - 1) \o SubSeq(s, i + 1, Len(s))

\* ---- Ship (drawables/ship.py) ----
\* game_state.py holds a second Ship class, the one GameState instantiates:
\* it is the same but for shoot_cooldown, which it does not have.
Ship_init == [x |-> Quarters(SHIP_START_X), target_x |-> SHIP_START_X, shoot_cooldown |-> 0]

Ship_move_to(s, x) == [s EXCEPT !.target_x = x]

Ship_is_moving(s) == s.x # Quarters(s.target_x)

Ship_can_shoot(s) == s.shoot_cooldown = 0

\* mutant: the branch that moves the ship to the left is missing
Ship_animate_NoLeft(s) ==
    [s EXCEPT !.x = IF @ < Quarters(s.target_x)
                    THEN Min({@ + SHIP_SPEED, Quarters(s.target_x)})
                    ELSE @,
              !.shoot_cooldown = IF @ > 0 THEN @ - 1 ELSE @]

\* mutant: x <= target_x in place of x < target_x, and no clamp to the target
Ship_animate_Overshoot(s) ==
    [s EXCEPT !.x = IF @ <= Quarters(s.target_x) THEN @ + SHIP_SPEED ELSE @ - SHIP_SPEED,
              !.shoot_cooldown = IF @ > 0 THEN @ - 1 ELSE @]

\* mutant: the ship moves two steps of SHIP_SPEED per call
Ship_animate_Fast(s) ==
    LET moved ==
            IF s.x < Quarters(s.target_x)
            THEN Min({s.x + 2 * SHIP_SPEED, Quarters(s.target_x)})
            ELSE IF s.x > Quarters(s.target_x)
                 THEN Max({s.x - 2 * SHIP_SPEED, Quarters(s.target_x)})
                 ELSE s.x
    IN  [s EXCEPT !.x = moved,
                  !.shoot_cooldown = IF @ > 0 THEN @ - 1 ELSE @]

Ship_animate(s) ==
    LET moved ==
            IF s.x < Quarters(s.target_x)
            THEN Min({s.x + SHIP_SPEED, Quarters(s.target_x)})
            ELSE IF s.x > Quarters(s.target_x)
                 THEN Max({s.x - SHIP_SPEED, Quarters(s.target_x)})
                 ELSE s.x
    IN  [s EXCEPT !.x = moved,
                  !.shoot_cooldown = IF @ > 0 THEN @ - 1 ELSE @]

\* ---- Enemy ----
\* mutant: the damage is added to the health
Enemy_take_damage_Heal(es, i) ==
    LET health == es[i].health + 1
    IN  IF health <= 0
        THEN RemoveAt(es, i)
        ELSE [es EXCEPT ![i].health = health]

\* mutant: health < 0 in place of health <= 0
Enemy_take_damage_OffByOne(es, i) ==
    LET health == es[i].health - 1
    IN  IF health < 0
        THEN RemoveAt(es, i)
        ELSE [es EXCEPT ![i].health = health]

\* mutant: the enemy takes 2 damage
Enemy_take_damage_Double(es, i) ==
    LET health == es[i].health - 2
    IN  IF health <= 0
        THEN RemoveAt(es, i)
        ELSE [es EXCEPT ![i].health = health]

\* take_damage of enemies[i]: the list after the call
Enemy_take_damage(es, i) ==
    LET health == es[i].health - 1
    IN  IF health <= 0
        THEN RemoveAt(es, i)
        ELSE [es EXCEPT ![i].health = health]

\* ---- Bullet ----
\* Bullet.__init__: fired from column x, one row above the ship's lane
Bullet_init(id, x) == [id |-> id, x |-> x, y |-> Twentieths(SHIP_POSITION_Y - 1)]

\* mutant: the test enemy.x == self.x is missing
Bullet_check_collision_AnyColumn(b, es) ==
    LET hit == { i \in DOMAIN es : Twentieths(es[i].y) >= b.y }
    IN  IF hit = {} THEN 0 ELSE Min(hit)

\* mutant: the test enemy.y >= self.y is missing
Bullet_check_collision_AnyRow(b, es) ==
    LET hit == { i \in DOMAIN es : es[i].x = b.x }
    IN  IF hit = {} THEN 0 ELSE Min(hit)

\* index of the enemy _check_collision returns, 0 for None
Bullet_check_collision(b, es) ==
    LET hit == { i \in DOMAIN es : es[i].x = b.x /\ Twentieths(es[i].y) >= b.y }
    IN  IF hit = {} THEN 0 ELSE Min(hit)

\* ---- GameState ----
\* the cell that the enumerate loops of _initialize_enemies visit k-th:
\* weeks in the outer loop, days in the inner one
CellAt(k) == [x |-> (k - 1) \div NUM_DAYS, y |-> (k - 1) % NUM_DAYS]

\* mutant: level < 0 in place of level <= 0
GameState_initialize_enemies_KeepZero(data) ==
    LET visited == [k \in 1 .. (NUM_WEEKS * NUM_DAYS) |->
                       [x |-> CellAt(k).x, y |-> CellAt(k).y,
                        health |-> data[CellAt(k).x][CellAt(k).y]]]
        Created(e) == ~(e.health < 0)
    IN  SelectSeq(visited, Created)

GameState_initialize_enemies(data) ==
    LET visited == [k \in 1 .. (NUM_WEEKS * NUM_DAYS) |->
                       [x |-> CellAt(k).x, y |-> CellAt(k).y,
                        health |-> data[CellAt(k).x][CellAt(k).y]]]
        Created(e) == ~(e.health <= 0)
    IN  SelectSeq(visited, Created)

\* history of the ship's current move: kept from a move_to() made while the
\* ship was idle (its position then, the animate calls made while moving
\* since) until the first call after the arrival or another move_to()
NoMove == [tracked |-> FALSE, from |-> 0, steps |-> 0]

\* history of the calls made on the GameState: shoot calls, bullets removed,
\* shoot calls made with no live enemy in the bullet's column, the hits of the
\* last animate call, the last call and whether the ship was idle before it,
\* the ship's current move
HistInit ==
    [fired |-> 0, removed |-> 0, blind |-> 0,
     hits |-> << >>, op |-> "init", wasIdle |-> TRUE, move |-> NoMove]

GameState_init(data) ==
    [ship |-> Ship_init,
     enemies |-> GameState_initialize_enemies(data),
     bullets |-> << >>,
     hist |-> HistInit]

GameState_is_complete(g) == Len(g.enemies) = 0

\* mutant: the ship is reported idle while it is moving
GameState_can_take_action_Always(g) == TRUE

GameState_can_take_action(g) == ~Ship_is_moving(g.ship)

\* int(self.ship.x) of a non-negative float
IntOf(x) == x \div Quarters(1)

GameState_shoot(g) ==
    LET b == Bullet_init(g.hist.fired + 1, IntOf(g.ship.x))
    IN  [g EXCEPT
            !.bullets = Append(@, b),
            !.hist = [@ EXCEPT
                !.fired = @ + 1,
                !.blind = IF \E i \in DOMAIN g.enemies : g.enemies[i].x = b.x
                          THEN @ ELSE @ + 1,
                !.op = "shoot",
                !.wasIdle = ~Ship_is_moving(g.ship)]]

\* mutant: the bullet that hit is not removed from the list
Bullet_animate_KeepBullet(st, i) ==
    LET b == [st.bullets[i] EXCEPT !.y = @ - BULLET_SPEED]
        hit == Bullet_check_collision(b, st.enemies)
    IN  IF hit # 0
        THEN [bullets |-> [st.bullets EXCEPT ![i] = b],
              enemies |-> Enemy_take_damage(st.enemies, hit),
              hits |-> Append(st.hits,
                         [id |-> b.id, x |-> st.enemies[hit].x, y |-> st.enemies[hit].y,
                          health |-> st.enemies[hit].health - 1])]
        ELSE [st EXCEPT !.bullets[i] = b]

\* Bullet.animate of bullets[i], inside the loop of GameState.animate
Bullet_animate(st, i) ==
    LET b == [st.bullets[i] EXCEPT !.y = @ - BULLET_SPEED]
        hit == Bullet_check_collision(b, st.enemies)
    IN  IF hit # 0
        THEN [bullets |-> RemoveAt(st.bullets, i),
              enemies |-> Enemy_take_damage(st.enemies, hit),
              hits |-> Append(st.hits,
                         [id |-> b.id, x |-> st.enemies[hit].x, y |-> st.enemies[hit].y,
                          health |-> st.enemies[hit].health - 1])]
        ELSE [st EXCEPT !.bullets[i] = b]

RECURSIVE BulletLoop(_, _)
\* for bullet in self.bullets: bullet.animate()
\* The list iterator holds an index into the live list: it advances by one
\* after each element, also when that element removed itself from the list.
BulletLoop(st, i) ==
    IF i > Len(st.bullets) THEN st ELSE BulletLoop(Bullet_animate(st, i), i + 1)

GameState_animate(g) ==
    LET st == BulletLoop([bullets |-> g.bullets, enemies |-> g.enemies, hits |-> << >>], 1)
    IN  [ship |-> Ship_animate(g.ship),
         enemies |-> st.enemies,
         bullets |-> st.bullets,
         hist |-> [g.hist EXCEPT
             !.removed = @ + Len(st.hits),
             !.hits = st.hits,
             !.op = "animate",
             !.wasIdle = ~Ship_is_moving(g.ship),
             !.move = IF ~@.tracked THEN @
                      ELSE IF Ship_is_moving(g.ship)
                           THEN [@ EXCEPT !.steps = @ + 1]
                           ELSE NoMove]]

GameState_move_to(g, x) ==
    [g EXCEPT !.ship = Ship_move_to(@, x),
              !.hist = [@ EXCEPT
                  !.op = "move_to",
                  !.wasIdle = ~Ship_is_moving(g.ship),
                  !.move = IF Ship_is_moving(g.ship) THEN NoMove
                           ELSE [tracked |-> TRUE, from |-> g.ship.x, steps |-> 0]]]

\* ---- the state as one record, and its assignment ----
Game == [ship |-> ship, enemies |-> enemies, bullets |-> bullets, hist |-> hist]

LoadGame(g) ==
    /\ ship' = g.ship
    /\ enemies' = g.enemies
    /\ bullets' = g.bullets
    /\ hist' = g.hist

GenInit == [target_column |-> 0, remaining |-> 0]

DriveInit(data) ==
    [game |-> GameState_init(data), pc |-> "next", gen |-> GenInit,
     frames |-> 1, ticks |-> 0]

\* animate calls bullet b has lived through
BulletSteps(b) == (Twentieths(SHIP_POSITION_Y - 1) - b.y) \div BULLET_SPEED

\* the state after GameState(contribution_data), the drive loop not started
InitFrom(grids) ==
    /\ contribution_data \in grids
    /\ LET g == GameState_init(contribution_data)
       IN  /\ ship = g.ship
           /\ enemies = g.enemies
           /\ bullets = g.bullets
           /\ hist = g.hist
    /\ pc = "next"
    /\ gen = GenInit
    /\ frames = 1
    /\ ticks = 0
    /\ twin = DriveInit(contribution_data)

Init == InitFrom(Grids)

\* ---- the operations of GameState, called in any order ----
MoveTo ==
    /\ \E x \in ActiveWeeks : LoadGame(GameState_move_to(Game, x))
    /\ UNCHANGED <<contribution_data, pc, gen, frames, ticks, twin>>

Shoot ==
    /\ hist.fired < MaxShots
    /\ LoadGame(GameState_shoot(Game))
    /\ UNCHANGED <<contribution_data, pc, gen, frames, ticks, twin>>

Animate ==
    /\ \A i \in DOMAIN bullets : BulletSteps(bullets[i]) < MaxBulletSteps
    /\ LoadGame(GameState_animate(Game))
    /\ UNCHANGED <<contribution_data, pc, gen, frames, ticks, twin>>

Next == MoveTo \/ Shoot \/ Animate

Spec == Init /\ [][Next]_vars

\* mutant: random.choice draws from every column of the window, with or
\* without a live enemy; one shot is fired at a column that has none
RandomStrategy_generate_actions_AnyColumn(g, es) ==
    IF g.remaining > 0
    THEN {[g EXCEPT !.remaining = @ - 1]}
    ELSE IF Len(es) # 0
         THEN LET EnemiesIn(c) == { i \in DOMAIN es : es[i].x = c }
                  Lowest(c) ==
                      CHOOSE i \in EnemiesIn(c) :
                          \A j \in EnemiesIn(c) :
                              es[j].y < es[i].y \/ (es[j].y = es[i].y /\ i <= j)
              IN  { [target_column |-> c,
                     remaining |-> IF EnemiesIn(c) = {} THEN 0
                                   ELSE es[Lowest(c)].health - 1] :
                    c \in ActiveWeeks }
         ELSE {}

\* ---- RandomStrategy.generate_actions, resumed for its next Action ----
\* The generator's position is the column of the running for loop and the
\* number of yields that loop still owes.  The result is the set of positions
\* it can suspend in, one per outcome of random.choice; empty when the while
\* loop ends.  The generator reads the live enemies list each time it resumes.
RandomStrategy_generate_actions(g, es) ==
    IF g.remaining > 0
    THEN {[g EXCEPT !.remaining = @ - 1]}
    ELSE IF Len(es) # 0
         THEN LET columns_with_enemies == { es[i].x : i \in DOMAIN es }
                  EnemiesIn(c) == { i \in DOMAIN es : es[i].x = c }
                  Lowest(c) ==
                      CHOOSE i \in EnemiesIn(c) :
                          \A j \in EnemiesIn(c) :
                              es[j].y < es[i].y \/ (es[j].y = es[i].y /\ i <= j)
              IN  { [target_column |-> c, remaining |-> es[Lowest(c)].health - 1] :
                    c \in columns_with_enemies }
         ELSE {}

\* ---- Animator._generate_frames, one step of the loop at a time ----
\* for action in ...: the generator is resumed; move_to(action.week)
\* The generator reads the enemies attribute of its argument, which its
\* signature declares to be the GameState: it is run here on the GameState of
\* the loop.  (Line 80 of animator.py hands it self.contribution_data, whose
\* class, github_client.ContributionData, is not among the source files.)
Drive_next_action(d) ==
    LET resumed == RandomStrategy_generate_actions(d.gen, d.game.enemies)
    IN  IF resumed = {}
        THEN {[d EXCEPT !.pc = "final"]}
        ELSE { [d EXCEPT !.gen = g,
                         !.game = GameState_move_to(@, g.target_column),
                         !.pc = "move"] : g \in resumed }

\* while can_take_action() is False: animate(); frames.append(...)
Drive_move_frame(d) ==
    [d EXCEPT !.game = GameState_animate(@), !.frames = @ + 1, !.ticks = @ + 1]

\* if action.shoot: shoot(); animate(); frames.append(...)
Drive_shoot_frame(d) ==
    [d EXCEPT !.game = GameState_animate(GameState_shoot(@)),
              !.frames = @ + 1,
              !.ticks = @ + 1,
              !.pc = "next"]

\* mutant: animate() is called again before the final frames are rendered
Drive_finish_AnimateAgain(d) ==
    IF ~GameState_is_complete(d.game)
    THEN [d EXCEPT !.game = GameState_animate(@), !.ticks = @ + 1]
    ELSE [d EXCEPT !.game = GameState_animate(@), !.frames = @ + 5, !.pc = "done"]

\* while not is_complete(): animate()   then the 5 final frames
Drive_finish(d) ==
    IF ~GameState_is_complete(d.game)
    THEN [d EXCEPT !.game = GameState_animate(@), !.ticks = @ + 1]
    ELSE [d EXCEPT !.frames = @ + 5, !.pc = "done"]

Drive == [game |-> Game, pc |-> pc, gen |-> gen, frames |-> frames, ticks |-> ticks]

LoadDrive(d) ==
    /\ LoadGame(d.game)
    /\ pc' = d.pc
    /\ gen' = d.gen
    /\ frames' = d.frames
    /\ ticks' = d.ticks

NextAction ==
    /\ pc = "next"
    /\ \E d \in Drive_next_action(Drive) : LoadDrive(d)
    /\ UNCHANGED <<contribution_data, twin>>

MoveFrame ==
    /\ pc = "move"
    /\ ~GameState_can_take_action(Game)
    /\ ticks < MaxDriveTicks
    /\ LoadDrive(Drive_move_frame(Drive))
    /\ UNCHANGED <<contribution_data, twin>>

ShootFrame ==
    /\ pc = "move"
    /\ GameState_can_take_action(Game)
    /\ ticks < MaxDriveTicks
    /\ LoadDrive(Drive_shoot_frame(Drive))
    /\ UNCHANGED <<contribution_data, twin>>

Finish ==
    /\ pc = "final"
    /\ ticks < MaxDriveTicks
    /\ LoadDrive(Drive_finish(Drive))
    /\ UNCHANGED <<contribution_data, twin>>

DriveNext == NextAction \/ MoveFrame \/ ShootFrame \/ Finish

DriveSpec == Init /\ [][DriveNext]_vars

\* the drive loop over the grids with one row of targets
RowSpec == InitFrom(RowGrids) /\ [][DriveNext]_vars

\* ---- two runs of _generate_frames on the same grid ----
\* the steps a run in position d can take next
DriveSucc(d) ==
    IF d.pc = "next" THEN Drive_next_action(d)
    ELSE IF d.ticks >= MaxDriveTicks THEN {}
    ELSE IF d.pc = "move"
         THEN IF GameState_can_take_action(d.game)
              THEN {Drive_shoot_frame(d)}
              ELSE {Drive_move_frame(d)}
    ELSE IF d.pc = "final" THEN {Drive_finish(d)}
    ELSE {}

\* what renderer.render_frame() is given to draw
Snapshot(g) ==
    [x |-> g.ship.x,
     enemies |-> g.enemies,
     bullets |-> [i \in DOMAIN g.bullets |-> [x |-> g.bullets[i].x, y |-> g.bullets[i].y]]]

\* the two runs have rendered the same frames as far as they are compared:
\* a run changes what it draws only in the step that renders a frame, so two
\* runs with the same number of frames are compared on their latest frame
RunsAgree ==
    /\ frames = twin.frames => Snapshot(Game) = Snapshot(twin.game)
    /\ (pc = "done" /\ twin.pc = "done") => frames = twin.frames

\* The first run renders its next frame, then the second run catches up.  The
\* comparison stops at the first difference.
TwinLead ==
    /\ RunsAgree
    /\ frames <= twin.frames \/ twin.pc = "done"
    /\ DriveNext

TwinFollow ==
    /\ RunsAgree
    /\ twin.frames < frames \/ pc = "done"
    /\ \E d \in DriveSucc(twin) : twin' = d
    /\ UNCHANGED <<contribution_data, ship, enemies, bullets, pc, gen, frames, ticks, hist>>

TwinNext == TwinLead \/ TwinFollow

TwinSpec == Init /\ [][TwinNext]_vars

\* ======================= properties =======================
InitialEnemies == GameState_initialize_enemies(contribution_data)

RECURSIVE TotalHealth(_)
TotalHealth(es) == IF es = << >> THEN 0 ELSE Head(es).health + TotalHealth(Tail(es))

\* _generate_frames can take its next step: it is not stopped by the bound
DriveCanStep == pc = "next" \/ (pc \in {"move", "final"} /\ ticks < MaxDriveTicks)

C2_FiresEqualTotalHealth ==
    pc = "done" => hist.fired = TotalHealth(InitialEnemies)

\* C3: in a drive-loop run with the randomized strategy no shot is fired at a
\* column without a live target, and no bullet is live when the run is over.
C3_NoWastedShot ==
    /\ hist.blind = 0
    /\ pc = "done" => Len(bullets) = 0

\* the live enemy at cell (x, y), as a set of list indices
EnemyAt(es, x, y) == { i \in DOMAIN es : es[i].x = x /\ es[i].y = y }

\* C4: no operation adds a target to the live list, and no operation raises
\* the health of a live target.
C4_TargetsNeverGain ==
    [][/\ Len(enemies') <= Len(enemies)
       /\ \A j \in DOMAIN enemies' :
              \E i \in DOMAIN enemies :
                  /\ enemies[i].x = enemies'[j].x
                  /\ enemies[i].y = enemies'[j].y
                  /\ enemies'[j].health <= enemies[i].health]_vars

\* a target that was hit and lives on with less health than its cell's level
C4_Witness ==
    \E i \in DOMAIN enemies :
        enemies[i].health < contribution_data[enemies[i].x][enemies[i].y]

\* C5: a target that a bullet's hit brought to health 0 in the last animate
\* call, and the bullet that hit it, are both gone from the live lists.
C5_KillRemovesBoth ==
    \A k \in DOMAIN hist.hits :
        hist.hits[k].health <= 0 =>
            /\ EnemyAt(enemies, hist.hits[k].x, hist.hits[k].y) = {}
            /\ \A i \in DOMAIN bullets : bullets[i].id # hist.hits[k].id

\* the single target of the grid, of health 1, killed by the one bullet fired
C5_Witness ==
    /\ hist.op = "animate"
    /\ Len(hist.hits) = 1
    /\ hist.hits[1].health = 0
    /\ hist.fired = 1
    /\ Len(InitialEnemies) = 1
    /\ InitialEnemies[1].health = 1

\* C6: shoot() with shoot_cooldown > 0 changes nothing; shoot() with
\* shoot_cooldown = 0 adds one bullet and sets shoot_cooldown to
\* SHIP_SHOOT_COOLDOWN_FRAMES.
C6_ShootHonoursCooldown ==
    [][hist'.fired # hist.fired =>
         IF ship.shoot_cooldown > 0
         THEN UNCHANGED <<ship, enemies, bullets>>
         ELSE /\ Len(bullets') = Len(bullets) + 1
              /\ ship'.shoot_cooldown = SHIP_SHOOT_COOLDOWN_FRAMES]_vars

\* C7: from a state where the ship is idle, a step that leaves target_x alone
\* leaves x alone, and the ship is still idle.
C7_IdleStaysPut ==
    [][(~Ship_is_moving(ship) /\ ship'.target_x = ship.target_x) =>
           (ship'.x = ship.x /\ ~Ship_is_moving(ship'))]_vars

\* an animate call made while the ship was idle at a column it had to move to
C7_Witness ==
    /\ hist.op = "animate"
    /\ hist.wasIdle
    /\ ship.target_x # SHIP_START_X
    /\ ~Ship_is_moving(ship)

\* C8: right after construction there is exactly one live target per cell of
\* level > 0, at that cell and with that health, none for a zero cell, no
\* bullet, and the ship is idle at column 25.
C8_InitialState ==
    hist.op = "init" =>
        /\ \A w \in Weeks, d \in Days :
              IF contribution_data[w][d] > 0
              THEN /\ Cardinality(EnemyAt(enemies, w, d)) = 1
                   /\ \A i \in EnemyAt(enemies, w, d) :
                          enemies[i].health = contribution_data[w][d]
              ELSE EnemyAt(enemies, w, d) = {}
        /\ \A i \in DOMAIN enemies : enemies[i].x \in Weeks /\ enemies[i].y \in Days
        /\ Len(bullets) = 0
        /\ ship.x = Quarters(SHIP_START_X)
        /\ ship.target_x = SHIP_START_X
        /\ ~Ship_is_moving(ship)

\* the state after construction from a grid with a cell of level 2, or from
\* one with two cells of level 1 in different columns
C8_Witness ==
    /\ hist.op = "init"
    /\ \/ Len(enemies) = 1 /\ enemies[1].health = 2
       \/ Len(enemies) = 2 /\ enemies[1].x # enemies[2].x

OccupiedColumns == { w \in Weeks : \E d \in Days : contribution_data[w][d] > 0 }

C10_LiveTargetsHaveHealth ==
    /\ GameState_is_complete(Game) <=> (\A w \in Weeks, d \in Days : EnemyAt(enemies, w, d) = {})
    /\ \A i \in DOMAIN enemies : enemies[i].health \in 1 .. MAX_HEALTH

\* a target was destroyed by a hit while another one is still live
C10_Witness ==
    /\ \E k \in DOMAIN hist.hits : hist.hits[k].health = 0
    /\ Len(enemies) >= 1
    /\ ~GameState_is_complete(Game)

\* C11: a bullet that shoot() has just created is in a column nearest to the
\* ship's position, which may be a fractional one while the ship is moving,
\* and in the row just above the ship's lane.
C11_BulletAtRoundedColumn ==
    hist.op = "shoot" =>
        LET b == bullets[Len(bullets)]
            off == Quarters(b.x) - ship.x
        IN  /\ 2 * off <= Quarters(1)
            /\ 2 * off >= 0 - Quarters(1)
            /\ b.y = Twentieths(SHIP_POSITION_Y - 1)

\* the row of the bullet with this id before the animate call of the step:
\* its row in the list, or the starting row if the step's shoot() created it
RowBefore(id) ==
    IF \E i \in DOMAIN bullets : bullets[i].id = id
    THEN bullets[CHOOSE i \in DOMAIN bullets : bullets[i].id = id].y
    ELSE Twentieths(SHIP_POSITION_Y - 1)

\* C12: in every animate call of the drive loop, every bullet that is live
\* at the start of the call and is not removed by a hit of its own has moved
\* up by exactly BULLET_SPEED, whatever other bullets were removed in the call.
C12_EveryBulletMoves ==
    [][ticks' # ticks =>
          \A j \in DOMAIN bullets' :
              bullets'[j].y = RowBefore(bullets'[j].id) - BULLET_SPEED]_vars

Abs(n) == IF n < 0 THEN 0 - n ELSE n

\* C13: after a move_to(c) made while the ship was idle at the integer column
\* p, and n animate calls since, the ship is n steps of SHIP_SPEED from p
\* towards c and not past c; it is idle exactly when n = 4 * |c - p|, and then
\* it is at c.
C13_ShipArrivesExactly ==
    hist.move.tracked =>
        LET p == hist.move.from
            c == ship.target_x
            n == hist.move.steps
        IN  /\ n <= 4 * Abs(c - IntOf(p))
            /\ ship.x = IF Quarters(c) >= p THEN p + n * SHIP_SPEED ELSE p - n * SHIP_SPEED
            /\ ~Ship_is_moving(ship) <=> n = 4 * Abs(c - IntOf(p))
            /\ n = 4 * Abs(c - IntOf(p)) => ship.x = Quarters(c)

\* the ship has just arrived at the column left of the one it was idle at
C13_Witness ==
    /\ hist.move.tracked
    /\ hist.op = "animate"
    /\ hist.move.steps = 4
    /\ ship.target_x < IntOf(hist.move.from)
    /\ ~Ship_is_moving(ship)

\* the bullets of the list that carry this id, as list indices
BulletWithId(bs, id) == { j \in DOMAIN bs : bs[j].id = id }

\* C14: a bullet leaves the live list only in an animate call in which it
\* hits an enemy, and that enemy is in the bullet's column; a bullet in a
\* column with no live enemy stays in the list in its column, its row never
\* grows, and it decreases by BULLET_SPEED in every call without a hit.
C14_BulletsLeaveOnlyByHit ==
    [][\A i \in DOMAIN bullets :
          /\ BulletWithId(bullets', bullets[i].id) = {} =>
                 /\ ticks' # ticks
                 /\ \E k \in DOMAIN hist'.hits :
                        /\ hist'.hits[k].id = bullets[i].id
                        /\ hist'.hits[k].x = bullets[i].x
          /\ (\A e \in DOMAIN enemies : enemies[e].x # bullets[i].x) =>
                 \E j \in BulletWithId(bullets', bullets[i].id) :
                     /\ bullets'[j].x = bullets[i].x
                     /\ bullets'[j].y <= bullets[i].y
                     /\ (ticks' # ticks /\ hist'.hits = << >>) =>
                            bullets'[j].y = bullets[i].y - BULLET_SPEED]_vars

\* a bullet flies on above every row of the window, in a column whose enemies
\* are all destroyed, while another column still has a live enemy
C14_Witness ==
    /\ hist.op = "animate"
    /\ Len(enemies) > 0
    /\ \E i \in DOMAIN bullets :
           /\ \A d \in ActiveDays : bullets[i].y < Twentieths(d)
           /\ \A e \in DOMAIN enemies : enemies[e].x # bullets[i].x

\* the cells of the grid that hold a target, and the sum of their levels
OccupiedCells == { c \in Weeks \X Days : contribution_data[c[1]][c[2]] > 0 }

InitialHealth ==
    SumOf([c \in OccupiedCells |-> contribution_data[c[1]][c[2]]], OccupiedCells)

\* C15: the health the live enemies have lost since construction equals the
\* number of bullets removed so far, the bullets created are the live ones
\* plus the removed ones, and no bullet has two hits in one animate call.
C15_Conservation ==
    /\ hist.fired = Len(bullets) + hist.removed
    /\ \A k1, k2 \in DOMAIN hist.hits :
           hist.hits[k1].id = hist.hits[k2].id => k1 = k2
    /\ InitialHealth - TotalHealth(enemies) = hist.removed

\* both hits on the targets of the grid have happened, bullets are still live
C15_Witness ==
    /\ hist.op = "animate"
    /\ hist.removed = 2
    /\ Len(hist.hits) = 1
    /\ Len(bullets) >= 2
    /\ hist.fired = Len(bullets) + 2

\* C16: after every call, no live enemy is in the column of a live bullet at
\* a row greater than or equal to the bullet's row, and no live enemy is in
\* the column of an enemy hit in the last animate call at a greater row than
\* the enemy hit.
C16_HitsLowestTarget ==
    /\ \A i \in DOMAIN bullets : \A e \in DOMAIN enemies :
           enemies[e].x = bullets[i].x => Twentieths(enemies[e].y) < bullets[i].y
    /\ \A k \in DOMAIN hist.hits : \A e \in DOMAIN enemies :
           enemies[e].x = hist.hits[k].x => enemies[e].y <= hist.hits[k].y

\* the lower of two targets in one column has been hit and destroyed, the
\* upper one is live and has bullets on their way to it
C16_Witness ==
    /\ hist.op = "animate"
    /\ \E k \in DOMAIN hist.hits : \E e \in DOMAIN enemies :
           /\ enemies[e].x = hist.hits[k].x
           /\ enemies[e].y < hist.hits[k].y
           /\ \E i \in DOMAIN bullets : bullets[i].x = enemies[e].x

\* the live enemies of column c, and the one of them with the largest row
EnemiesIn(c) == { i \in DOMAIN enemies : enemies[i].x = c }

LowestIn(c) == CHOOSE i \in EnemiesIn(c) : \A j \in EnemiesIn(c) : enemies[j].y <= enemies[i].y

\* C17: whenever the drive loop asks the randomized strategy for its next
\* action, the strategy stops exactly when no enemy is live; an iteration it
\* starts is for a column with a live enemy and owes as many fire actions as
\* the health of the lowest live enemy of that column; an iteration under way
\* goes on with one fire action less owed at the same column.
C17_StrategyIteration ==
    [][pc = "next" /\ pc' # "next" =>
          /\ pc' = "final" <=> Len(enemies) = 0
          /\ (pc' = "move" /\ gen.remaining = 0) =>
                 /\ EnemiesIn(gen'.target_column) # {}
                 /\ gen'.remaining + 1 = enemies[LowestIn(gen'.target_column)].health
                 /\ ship'.target_x = gen'.target_column
          /\ (pc' = "move" /\ gen.remaining > 0) =>
                 /\ gen'.target_column = gen.target_column
                 /\ gen'.remaining = gen.remaining - 1
                 /\ ship'.target_x = gen'.target_column]_vars

\* C18: in a drive-loop run, shoot() is called only while the ship is idle at
\* the column of the action being carried out, the bullet it creates is in
\* that column, and the step makes exactly one animate call and then goes
\* back to the strategy for the next action; taking the next action makes no
\* shoot and no animate call.
C18_FireOnlyWhenIdle ==
    [][/\ hist'.fired # hist.fired =>
              /\ hist'.fired = hist.fired + 1
              /\ ~Ship_is_moving(ship)
              /\ ship.x = Quarters(gen.target_column)
              /\ \E j \in BulletWithId(bullets', hist'.fired) :
                     bullets'[j].x = gen.target_column
              /\ ticks' = ticks + 1
              /\ pc' = "next"
       /\ pc = "next" => (hist'.fired = hist.fired /\ ticks' = ticks)]_vars

\* a shot has just been fired at the column the ship had to move to
C18_Witness ==
    /\ pc = "next"
    /\ hist.op = "animate"
    /\ hist.fired >= 1
    /\ gen.target_column # SHIP_START_X
    /\ \E j \in BulletWithId(bullets, hist.fired) :
           /\ bullets[j].x = gen.target_column
           /\ BulletSteps(bullets[j]) = 1

\* C19: the step of the drive loop that renders the final frames is taken
\* with is_complete() true, renders exactly 5 frames, and makes no animate
\* call and no other change of the game between them: the 5 frames show one
\* state, which has no live enemy.
C19_FinalFramesShowOneState ==
    [][pc' = "done" /\ pc # "done" =>
          /\ GameState_is_complete(Game)
          /\ frames' = frames + 5
          /\ ticks' = ticks
          /\ Snapshot(Game)' = Snapshot(Game)
          /\ Len(enemies') = 0]_vars

\* the run has returned after its final frames, with bullets still in flight
\* that an animate call would have moved
C19_Witness ==
    /\ pc = "done"
    /\ frames > 5
    /\ Len(bullets) > 0
    /\ Len(enemies) = 0

====
